---- MODULE Spec2Model ----
(***************************************************************************)
(* FireTrack: the calculateStreaks Cloud Function over the Firestore       *)
(* collections habits/{habitId} and habits/{habitId}/entries/{entryId}.    *)
(*                                                                         *)
(* Instants are integers (milliseconds since the epoch).  A date key       *)
(* ("yyyy-mm-dd", the UTC calendar day of an instant) is modelled by the   *)
(* number of that day since the epoch, so toDateKey is a floor division    *)
(* and toUtc a multiplication by DAY_MS.                                   *)
(*                                                                         *)
(* A Firestore field value is a record [type, v]: type "ts" is a           *)
(* Timestamp at instant v, "num" the number v, "str" a string, "null" the  *)
(* null value.  An optional field is << >> when absent and <<x>> when it   *)
(* holds x.                                                                *)
(***************************************************************************)
EXTENDS Integers, Sequences, FiniteSets

\* habits, entries: the two collections; now: the clock; run: the request
\* calculateStreaks is serving, other: a second request served by another
\* instance of the function.  client: the handler of the page that is in
\* flight; firebase: the state of the client's Firebase module.  sameData is
\* a history variable: sameData[h] counts, up to 2, the writes of the runs
\* to habit h since the entries of h or the calendar day last changed.
VARIABLES habits, entries, now, run, sameData, client, other, firebase

vars == <<habits, entries, now, run, sameData, client, other, firebase>>

(* ------------------------------ bounds -------------------------------- *)

\* Last calendar day (since the epoch) the clock and the entries may reach.
MaxDay == 1

\* Entries in the whole store.
MaxEntries == 3

\* The entries query's limit; 120 in the source, scaled down so that a
\* habit can hold more entries than one scan returns.
ScanLimit == 2

\* Pure streak functions: last day of a date key, and keys in a sequence.
MaxKeyDay == 8
MaxKeys == 5

\* Calls of getFirebaseClients in one realm.
MaxCalls == 4

(* ----------------------------- constants ------------------------------ *)

DAY_MS == 86400000

HabitIds == {1, 2}

\* Times of day at which entries are performed: midnight and noon.
DayOffsets == {0, DAY_MS \div 2}

Instants == {d * DAY_MS + o : d \in 0..MaxDay, o \in DayOffsets}

(* ------------------------- Firestore values --------------------------- *)

Absent == << >>

Some(v) == <<v>>

Ts(ms) == [type |-> "ts", v |-> ms]

Num(n) == [type |-> "num", v |-> n]

NullValue == [type |-> "null", v |-> 0]

StrValue == [type |-> "str", v |-> 0]

\* performedAt of an entry: a Timestamp, a value of another type, or no
\* field at all.
PerformedAtValues ==
  {Some(Ts(t)) : t \in Instants} \cup {Some(StrValue), Some(Num(0)), Absent}

\* performedAt instanceof Timestamp
IsTimestamp(field) == field # Absent /\ field[1].type = "ts"

\* Firestore's order of value types: numbers before timestamps before
\* strings.
TypeRank(v) ==
  CASE v.type = "null" -> 0
    [] v.type = "num" -> 1
    [] v.type = "ts" -> 2
    [] v.type = "str" -> 3

\* v comes before w in orderBy("performedAt", "desc"); a document without
\* the field is in no position of the index and is kept last here.
Before(v, w) ==
  IF v = Absent THEN FALSE
  ELSE IF w = Absent THEN TRUE
  ELSE \/ TypeRank(v[1]) > TypeRank(w[1])
       \/ TypeRank(v[1]) = TypeRank(w[1]) /\ v[1].v > w[1].v

Min(a, b) == IF a < b THEN a ELSE b

Max(a, b) == IF a > b THEN a ELSE b

\* Number(value ?? 0) of an optional field holding a number.
NumberOr0(field) == IF field = Absent THEN 0 ELSE field[1].v

(* ------------------------- streak arithmetic -------------------------- *)

\* Math.round(x / d) for d > 0: the nearest integer, halves rounded up.
Round(x, d) == (2 * x + d) \div (2 * d)

\* date.toISOString().slice(0, 10)
toDateKey(date) == date \div DAY_MS

\* Date.UTC(year, month - 1, day)
toUtc(dateKey) == dateKey * DAY_MS

\* Mutant of CurrentStreakLoop: a gap of more than a day is skipped
\* (continue) where the loop breaks.
RECURSIVE CurrentStreakLoopResume(_, _, _, _)
CurrentStreakLoopResume(dateKeys, index, streak, previousUtc) ==
  IF index > Len(dateKeys) THEN streak
  ELSE LET currentUtc == toUtc(dateKeys[index])
           diff == Round(previousUtc - currentUtc, DAY_MS)
       IN  IF diff = 1
             THEN CurrentStreakLoopResume(dateKeys, index + 1, streak + 1,
                                          currentUtc)
           ELSE CurrentStreakLoopResume(dateKeys, index + 1, streak,
                                        currentUtc)

RECURSIVE CurrentStreakLoop(_, _, _, _)
CurrentStreakLoop(dateKeys, index, streak, previousUtc) ==
  IF index > Len(dateKeys) THEN streak
  ELSE LET currentUtc == toUtc(dateKeys[index])
           diff == Round(previousUtc - currentUtc, DAY_MS)
       IN  IF diff = 0
             THEN CurrentStreakLoop(dateKeys, index + 1, streak, previousUtc)
           ELSE IF diff = 1
             THEN CurrentStreakLoop(dateKeys, index + 1, streak + 1, currentUtc)
           ELSE streak

computeCurrentStreak(dateKeys, date) ==
  IF Len(dateKeys) = 0 THEN 0
  ELSE LET todayKey == toDateKey(date)
           todayUtc == toUtc(todayKey)
           firstUtc == toUtc(dateKeys[1])
           diffToday == Round(todayUtc - firstUtc, DAY_MS)
       IN  IF diffToday > 1 THEN 0
           ELSE CurrentStreakLoop(dateKeys, 2, 1, firstUtc)

\* previousUtc = Absent stands for null.
RECURSIVE LongestStreakLoop(_, _, _, _, _)
LongestStreakLoop(dateKeys, index, longest, streakRun, previousUtc) ==
  IF index > Len(dateKeys) THEN longest
  ELSE LET currentUtc == toUtc(dateKeys[index])
       IN  IF previousUtc = Absent
             THEN LongestStreakLoop(dateKeys, index + 1, Max(longest, 1), 1,
                                    Some(currentUtc))
           ELSE LET diff == Round(previousUtc[1] - currentUtc, DAY_MS)
                    nextRun == IF diff = 1 THEN streakRun + 1 ELSE 1
                IN  IF diff = 0
                      THEN LongestStreakLoop(dateKeys, index + 1, longest,
                                             streakRun, previousUtc)
                    ELSE LongestStreakLoop(dateKeys, index + 1,
                                           Max(longest, nextRun), nextRun,
                                           Some(currentUtc))

\* Mutant of computeLongestStreak: no test for the empty list, longest
\* starts at 1.
computeLongestStreakFromOne(dateKeys) ==
  LongestStreakLoop(dateKeys, 1, 1, 0, Absent)

\* Mutant of computeLongestStreak: the run that starts at the newest key
\* is taken for the longest.
computeLongestStreakNewest(dateKeys) ==
  IF Len(dateKeys) = 0 THEN 0
  ELSE CurrentStreakLoop(dateKeys, 2, 1, toUtc(dateKeys[1]))

computeLongestStreak(dateKeys) ==
  IF Len(dateKeys) = 0 THEN 0
  ELSE LongestStreakLoop(dateKeys, 1, 0, 0, Absent)

(* ------------------------------ the store ----------------------------- *)

FieldNames ==
  {"ownerId", "title", "currentStreak", "longestStreak", "lastEntryAt",
   "updatedAt"}

NoFields == [f \in FieldNames |-> Absent]

\* habits[h] when the document habits/{h} does not exist.
NoDoc == [exists |-> FALSE, fields |-> NoFields]

\* Mutant of SetMerge: ref.set(data) without {merge: true}, which replaces
\* the document.
SetReplace(document, data) ==
  [exists |-> TRUE,
   fields |-> [f \in FieldNames |->
                 IF f \in DOMAIN data THEN Some(data[f]) ELSE Absent]]

\* ref.set(data, {merge: true}): the fields of data replace the document's,
\* the others stay; a document that does not exist is created.
SetMerge(document, data) ==
  [exists |-> TRUE,
   fields |-> [f \in FieldNames |->
                 IF f \in DOMAIN data THEN Some(data[f])
                 ELSE document.fields[f]]]

\* addDoc(collection(firestore, "habits"), {...}) of handleCreateHabit;
\* ownerId and title stand for the fields the form fills in.
NewHabit(date) ==
  SetMerge(NoDoc, [ownerId |-> StrValue, title |-> StrValue,
                   updatedAt |-> Ts(date)])

\* The entries of one habit with value performedAt added, kept in the
\* order of the performedAt index, newest first.
RECURSIVE InsertEntry(_, _)
InsertEntry(docs, performedAt) ==
  IF docs = << >> THEN <<performedAt>>
  ELSE IF Before(Head(docs), performedAt)
    THEN <<Head(docs)>> \o InsertEntry(Tail(docs), performedAt)
  ELSE <<performedAt>> \o docs

RemoveAt(docs, i) == SubSeq(docs, 1, i - 1) \o SubSeq(docs, i + 1, Len(docs))

HasPerformedAt(field) == field # Absent

\* collection("entries").orderBy("performedAt", "desc").limit(n).get():
\* the documents that have the field, newest first, at most n of them.
QueryEntries(docs, n) ==
  LET indexed == SelectSeq(docs, HasPerformedAt)
  IN  SubSeq(indexed, 1, Min(Len(indexed), n))

\* db.collection("habits").get(): the existing documents by id; of each,
\* the run uses its reference and its longestStreak.
RECURSIVE HabitDocs(_)
HabitDocs(ids) ==
  IF ids = {} THEN << >>
  ELSE LET first == CHOOSE h \in ids : \A g \in ids : h <= g
       IN  <<[id |-> first,
              longestStreak |-> habits[first].fields["longestStreak"]]>>
           \o HabitDocs(ids \ {first})

ExistingHabits == {h \in HabitIds : habits[h].exists}

TotalEntries ==
  LET RECURSIVE Sum(_)
      Sum(ids) == IF ids = {} THEN 0
                  ELSE LET h == CHOOSE g \in ids : TRUE
                       IN  Len(entries[h]) + Sum(ids \ {h})
  IN  Sum(HabitIds)

(* ------------------------- calculateStreaks --------------------------- *)

\* Mutant of BuildDateKeys: the loop ends at the first entry whose
\* performedAt is no Timestamp.
RECURSIVE BuildDateKeysStop(_, _)
BuildDateKeysStop(docs, dateKeys) ==
  IF docs = << >> \/ ~IsTimestamp(Head(docs)) THEN dateKeys
  ELSE LET key == toDateKey(Head(docs)[1].v)
       IN  IF dateKeys = << >> \/ dateKeys[Len(dateKeys)] # key
             THEN BuildDateKeysStop(Tail(docs), Append(dateKeys, key))
           ELSE BuildDateKeysStop(Tail(docs), dateKeys)

\* The loop over entriesSnapshot.docs that builds dateKeys.
RECURSIVE BuildDateKeys(_, _)
BuildDateKeys(docs, dateKeys) ==
  IF docs = << >> THEN dateKeys
  ELSE LET performedAt == Head(docs)
       IN  IF IsTimestamp(performedAt)
             THEN LET key == toDateKey(performedAt[1].v)
                  IN  IF dateKeys = << >> \/ dateKeys[Len(dateKeys)] # key
                        THEN BuildDateKeys(Tail(docs), Append(dateKeys, key))
                      ELSE BuildDateKeys(Tail(docs), dateKeys)
           ELSE BuildDateKeys(Tail(docs), dateKeys)

\* Mutant of MergeLongest: Math.min in place of Math.max.
MergeLongestMin(previousLongest, longestStreakCandidate) ==
  Min(previousLongest, longestStreakCandidate)

\* Mutant of MergeLongest: the candidate is added to the stored value.
MergeLongestSum(previousLongest, longestStreakCandidate) ==
  previousLongest + longestStreakCandidate

\* Mutant of MergeLongest: the candidate is stored as it is.
MergeLongestCandidate(previousLongest, longestStreakCandidate) ==
  longestStreakCandidate

\* Math.max(previousLongest, longestStreakCandidate)
MergeLongest(previousLongest, longestStreakCandidate) ==
  Max(previousLongest, longestStreakCandidate)

\* entriesSnapshot.docs[0]?.get("performedAt") ?? null
FirstPerformedAt(docs) ==
  IF docs = << >> \/ Head(docs) = Absent THEN NullValue ELSE Head(docs)[1]

\* The object passed to habitDoc.ref.set.
StreakData(currentStreak, longestStreak, lastEntryAt, date) ==
  [currentStreak |-> Num(currentStreak),
   longestStreak |-> Num(longestStreak),
   lastEntryAt |-> lastEntryAt,
   updatedAt |-> Ts(date)]

NoData == << >>

\* The locals of one iteration of the loop over habitsSnapshot.docs.
NoLocals ==
  [entriesSnapshot |-> << >>, dateKeys |-> << >>, currentStreak |-> 0,
   longestStreakCandidate |-> 0, previousLongest |-> 0, data |-> NoData]

IdleRun ==
  [pc |-> "idle", docs |-> << >>, index |-> 1, processed |-> 0,
   locals |-> NoLocals, response |-> Absent]

(* ------------------------------ the client --------------------------- *)

\* No handler of the page is in flight.
IdleClient == [pc |-> "idle", habitId |-> 0]

\* The services connect...Emulator is called for.
Services == {"auth", "firestore", "storage", "functions"}

\* The module lib/firebase/client as it is loaded: firebaseClients is null,
\* emulatorsConfigured false.  window and shouldUseEmulators are the realm
\* (a browser or the server) and the build's
\* NEXT_PUBLIC_USE_FIREBASE_EMULATORS; existingApps is getApps().length.
\* pc and clients are the position and the local of the call of
\* getFirebaseClients in progress, pending the promises of setPersistence
\* not yet settled.  created counts the bundles built, connects the calls
\* of each connect...Emulator, calls the calls of getFirebaseClients;
\* returned is the bundle the last call returned.
NoFirebase ==
  [firebaseClients |-> Absent, emulatorsConfigured |-> FALSE,
   window |-> TRUE, shouldUseEmulators |-> FALSE, existingApps |-> 0,
   pc |-> "idle", clients |-> Absent, pending |-> 0,
   created |-> 0, calls |-> 0, returned |-> Absent,
   connects |-> [s \in Services |-> 0]]

(* ------------------------------- actions ------------------------------ *)

\* The store is empty, no request is being served, it is noon of day 0.
Init ==
  /\ habits = [h \in HabitIds |-> NoDoc]
  /\ entries = [h \in HabitIds |-> << >>]
  /\ now = DAY_MS \div 2
  /\ run = IdleRun
  /\ sameData = [h \in HabitIds |-> 0]
  /\ client = IdleClient
  /\ other = IdleRun
  /\ firebase = NoFirebase

\* A day passes; the clock is read at noon.
Tick ==
  /\ now + DAY_MS \in Instants
  /\ now' = now + DAY_MS
  /\ sameData' = [h \in HabitIds |-> 0]
  /\ UNCHANGED <<habits, entries, run, client, other, firebase>>

\* handleCreateHabit: a new document under habits.
CreateHabit(h) ==
  /\ ~habits[h].exists
  /\ entries[h] = << >>
  /\ habits' = [habits EXCEPT ![h] = NewHabit(now)]
  /\ UNCHANGED <<entries, now, run, sameData, client, other, firebase>>

\* The habit's owner (the client, the seeding of the emulator) creates an
\* entry document; its performedAt is any value, or is left out.
AddEntry(h, performedAt) ==
  /\ habits[h].exists
  /\ TotalEntries < MaxEntries
  /\ entries' = [entries EXCEPT ![h] = InsertEntry(@, performedAt)]
  /\ sameData' = [sameData EXCEPT ![h] = 0]
  /\ UNCHANGED <<habits, now, run, client, other, firebase>>

\* The habit's owner deletes an entry document.
RemoveEntry(h, i) ==
  /\ i \in 1..Len(entries[h])
  /\ entries' = [entries EXCEPT ![h] = RemoveAt(@, i)]
  /\ sameData' = [sameData EXCEPT ![h] = 0]
  /\ UNCHANGED <<habits, now, run, client, other, firebase>>

\* calculateStreaks, up to the habits snapshot: the request r after
\* db.collection("habits").get().
HabitsSnapshot(r) ==
  LET docs == HabitDocs(ExistingHabits)
  IN  [IdleRun EXCEPT
         !.pc = IF docs = << >> THEN "respond" ELSE "entries",
         !.docs = docs,
         !.response = r.response]

\* One iteration of the loop over the habits, from the entries query to the
\* call of habitDoc.ref.set: the request r with the iteration's locals.
Iteration(r) ==
  LET habitDoc == r.docs[r.index]
      entriesSnapshot == QueryEntries(entries[habitDoc.id], ScanLimit)
      dateKeys == BuildDateKeys(entriesSnapshot, << >>)
      currentStreak == computeCurrentStreak(dateKeys, now)
      longestStreakCandidate == computeLongestStreak(dateKeys)
      previousLongest == NumberOr0(habitDoc.longestStreak)
      longestStreak == MergeLongest(previousLongest, longestStreakCandidate)
      lastEntryAt == FirstPerformedAt(entriesSnapshot)
  IN  [r EXCEPT
         !.pc = "set",
         !.locals =
           [entriesSnapshot |-> entriesSnapshot,
            dateKeys |-> dateKeys,
            currentStreak |-> currentStreak,
            longestStreakCandidate |-> longestStreakCandidate,
            previousLongest |-> previousLongest,
            data |-> StreakData(currentStreak, longestStreak,
                                lastEntryAt, now)]]

\* The habit of the iteration request r is in.
HabitOf(r) == r.docs[r.index].id

\* The store after the write of habitDoc.ref.set of request r.
HabitsAfterSet(r) ==
  [habits EXCEPT ![HabitOf(r)] = SetMerge(@, r.locals.data)]

\* sameData after the write of request r: the write counts when the entries
\* the iteration read and the day it computed on are still the current ones.
SameDataAfterSet(r) ==
  [sameData EXCEPT
     ![HabitOf(r)] =
       IF /\ toDateKey(r.locals.data.updatedAt.v) = toDateKey(now)
          /\ r.locals.entriesSnapshot
               = QueryEntries(entries[HabitOf(r)], ScanLimit)
         THEN Min(@ + 1, 2)
       ELSE 0]

\* Mutant of NextIteration: the loop passes over the habit that follows.
NextIterationSkip(r) ==
  [r EXCEPT
     !.pc = IF r.index + 1 < Len(r.docs) THEN "entries" ELSE "respond",
     !.index = r.index + 2,
     !.processed = r.processed + 1,
     !.locals = NoLocals]

\* processed += 1 and the next turn of the loop.
NextIteration(r) ==
  [r EXCEPT
     !.pc = IF r.index < Len(r.docs) THEN "entries" ELSE "respond",
     !.index = r.index + 1,
     !.processed = r.processed + 1,
     !.locals = NoLocals]

\* res.json({processed})
Responded(r) == [IdleRun EXCEPT !.response = Some(r.processed)]

GetHabits ==
  /\ run.pc = "idle"
  /\ run' = HabitsSnapshot(run)
  /\ UNCHANGED <<habits, entries, now, sameData, client, other, firebase>>

GetEntries ==
  /\ run.pc = "entries"
  /\ run' = Iteration(run)
  /\ UNCHANGED <<habits, entries, now, sameData, client, other, firebase>>

\* The habit of the iteration the run is in.
CurrentHabit == HabitOf(run)

\* The instant at which the iteration computed its values (Timestamp.now()
\* of the data it writes).
ComputedAt == run.locals.data.updatedAt.v

\* The write of habitDoc.ref.set reaches the store; processed += 1.
SetHabit ==
  /\ run.pc = "set"
  /\ habits' = HabitsAfterSet(run)
  /\ sameData' = SameDataAfterSet(run)
  /\ run' = NextIteration(run)
  /\ UNCHANGED <<entries, now, client, other, firebase>>

Respond ==
  /\ run.pc = "respond"
  /\ run' = Responded(run)
  /\ UNCHANGED <<habits, entries, now, sameData, client, other, firebase>>

\* The habits the client creates under Spec.
OneHabit == {1}

\* Under Spec no write of the habit's owner falls between an iteration's
\* entries query and its write (the runs and the owner's writes do not
\* overlap); the clock runs on.
Next ==
  \/ Tick
  \/ run.pc # "set" /\ \E h \in OneHabit : CreateHabit(h)
  \/ run.pc # "set" /\ \E h \in OneHabit, performedAt \in PerformedAtValues :
                         AddEntry(h, performedAt)
  \/ run.pc # "set" /\ \E h \in OneHabit, i \in 1..MaxEntries :
                         RemoveEntry(h, i)
  \/ GetHabits
  \/ GetEntries
  \/ SetHabit
  \/ Respond

Spec == Init /\ [][Next]_vars

(* ---------------- the streak functions on their own ------------------- *)

\* The elements of a set of date keys, newest first.
RECURSIVE Descending(_)
Descending(keys) ==
  IF keys = {} THEN << >>
  ELSE LET newest == CHOOSE k \in keys : \A j \in keys : j <= k
       IN  <<newest>> \o Descending(keys \ {newest})

\* The dateKeys calculateStreaks can build: distinct keys, newest first.
DateKeySeqs ==
  {Descending(keys) :
     keys \in {ks \in SUBSET (0..MaxKeyDay) : Cardinality(ks) <= MaxKeys}}

\* Any dateKeys, any instant of the call.
StreakInit ==
  /\ habits = [h \in HabitIds |-> NoDoc]
  /\ entries = [h \in HabitIds |-> << >>]
  /\ sameData = [h \in HabitIds |-> 0]
  /\ client = IdleClient
  /\ other = IdleRun
  /\ firebase = NoFirebase
  /\ now \in {d * DAY_MS + o : d \in 0..MaxKeyDay, o \in DayOffsets}
  /\ \E dateKeys \in DateKeySeqs :
       run = [IdleRun EXCEPT !.pc = "keys", !.locals.dateKeys = dateKeys]

\* computeCurrentStreak(dateKeys) and computeLongestStreak(dateKeys).
ComputeStreaks ==
  /\ run.pc = "keys"
  /\ run' = [run EXCEPT
               !.pc = "done",
               !.locals.currentStreak =
                 computeCurrentStreak(run.locals.dateKeys, now),
               !.locals.longestStreakCandidate =
                 computeLongestStreak(run.locals.dateKeys)]
  /\ UNCHANGED <<habits, entries, now, sameData, client, other, firebase>>

StreakNext == ComputeStreaks

SpecStreak == StreakInit /\ [][StreakNext]_vars

(* --------------------------- several habits --------------------------- *)

\* Under SpecHabits the owner creates every habit of HabitIds, adds entries
\* performed at the instant of the clock and deletes the newest entry.
HabitsNext ==
  \/ Tick
  \/ run.pc # "set" /\ \E h \in HabitIds : CreateHabit(h)
  \/ run.pc # "set" /\ \E h \in HabitIds : AddEntry(h, Some(Ts(now)))
  \/ run.pc # "set" /\ \E h \in HabitIds : RemoveEntry(h, 1)
  \/ GetHabits
  \/ GetEntries
  \/ SetHabit
  \/ Respond

SpecHabits == Init /\ [][HabitsNext]_vars

(* ------------------------ the client's handlers ----------------------- *)

\* handleDeleteHabit: deleteDoc of the habit's document.  The documents of
\* its entries subcollection are no part of the call and stay in the store.
handleDeleteHabit(habitId) ==
  /\ habits[habitId].exists
  /\ habits' = [habits EXCEPT ![habitId] = NoDoc]
  /\ sameData' = [sameData EXCEPT ![habitId] = 0]
  /\ UNCHANGED <<entries, now, run, client, other, firebase>>

\* handleLogEntry up to its first await: addDoc of an entry whose
\* performedAt is serverTimestamp(), the instant the write reaches the store.
handleLogEntry(habitId) ==
  /\ client.pc = "idle"
  /\ habits[habitId].exists
  /\ TotalEntries < MaxEntries
  /\ entries' = [entries EXCEPT ![habitId] = InsertEntry(@, Some(Ts(now)))]
  /\ sameData' = [sameData EXCEPT ![habitId] = 0]
  /\ client' = [pc |-> "setDoc", habitId |-> habitId]
  /\ UNCHANGED <<habits, now, run, other, firebase>>

\* The object handleLogEntry passes to setDoc; its serverTimestamp() is the
\* instant the write reaches the store.
LogData(date) == [updatedAt |-> Ts(date), lastEntryAt |-> Ts(date)]

\* handleLogEntry from its first await on: setDoc(..., {merge: true}) of
\* the habit.  When the habit was deleted in between, the security rules
\* (no part of the sources) let the write create the document or reject it;
\* the rejection is caught.
handleLogEntrySetDoc ==
  /\ client.pc = "setDoc"
  /\ \/ habits' = [habits EXCEPT
                     ![client.habitId] = SetMerge(@, LogData(now))]
     \/ ~habits[client.habitId].exists /\ UNCHANGED habits
  /\ client' = IdleClient
  /\ UNCHANGED <<entries, now, run, sameData, other, firebase>>

\* Under SpecClient the handlers of the page run against one habit while
\* calculateStreaks serves a request, in any order of their steps.
ClientNext ==
  \/ Tick
  \/ \E h \in OneHabit : CreateHabit(h)
  \/ \E h \in OneHabit : handleDeleteHabit(h)
  \/ \E h \in OneHabit : handleLogEntry(h)
  \/ handleLogEntrySetDoc
  \/ GetHabits
  \/ GetEntries
  \/ SetHabit
  \/ Respond

SpecClient == Init /\ [][ClientNext]_vars

(* ------------------------- overlapping requests ----------------------- *)

\* The steps of a second calculateStreaks request, served by another
\* instance of the function while the first is being served.
GetHabitsOther ==
  /\ other.pc = "idle"
  /\ other' = HabitsSnapshot(other)
  /\ UNCHANGED <<habits, entries, now, run, sameData, client, firebase>>

GetEntriesOther ==
  /\ other.pc = "entries"
  /\ other' = Iteration(other)
  /\ UNCHANGED <<habits, entries, now, run, sameData, client, firebase>>

SetHabitOther ==
  /\ other.pc = "set"
  /\ habits' = HabitsAfterSet(other)
  /\ sameData' = SameDataAfterSet(other)
  /\ other' = NextIteration(other)
  /\ UNCHANGED <<entries, now, run, client, firebase>>

RespondOther ==
  /\ other.pc = "respond"
  /\ other' = Responded(other)
  /\ UNCHANGED <<habits, entries, now, run, sameData, client, firebase>>

\* Under SpecOverlap two requests are served at once over one habit, whose
\* owner adds entries performed at the instant of the clock and deletes the
\* newest entry at any point of either request.
OverlapNext ==
  \/ Tick
  \/ \E h \in OneHabit : CreateHabit(h)
  \/ \E h \in OneHabit : AddEntry(h, Some(Ts(now)))
  \/ \E h \in OneHabit : RemoveEntry(h, 1)
  \/ GetHabits
  \/ GetEntries
  \/ SetHabit
  \/ Respond
  \/ GetHabitsOther
  \/ GetEntriesOther
  \/ SetHabitOther
  \/ RespondOther

SpecOverlap == Init /\ [][OverlapNext]_vars

(* ------------------------- a request to its end ----------------------- *)

\* Under SpecServe the handlers of the page create, delete and log every
\* habit of HabitIds while a request is served.  The function's event loop
\* resumes the request whenever the call it awaits has returned, and the
\* calls to the store return: each step of the request that stays enabled
\* is taken.
ServeNext ==
  \/ \E h \in HabitIds : CreateHabit(h)
  \/ \E h \in HabitIds : handleDeleteHabit(h)
  \/ \E h \in HabitIds : handleLogEntry(h)
  \/ handleLogEntrySetDoc
  \/ GetHabits
  \/ GetEntries
  \/ SetHabit
  \/ Respond

SpecServe ==
  /\ Init
  /\ [][ServeNext]_vars
  /\ WF_vars(GetEntries)
  /\ WF_vars(SetHabit)
  /\ WF_vars(Respond)

(* ------------------------ the Firebase module ------------------------- *)

\* ensureClients: the cached bundle, or a new one (the n-th bundle built is
\* bundle n) over the first existing app or a new app.
ensureClients(f) ==
  IF f.firebaseClients # Absent
    THEN [f EXCEPT !.clients = f.firebaseClients]
  ELSE [f EXCEPT
          !.existingApps = IF @ > 0 THEN @ ELSE 1,
          !.created = @ + 1,
          !.firebaseClients = Some(f.created + 1),
          !.clients = Some(f.created + 1)]

\* Mutant of maybeConnectEmulators: emulatorsConfigured is not set after
\* the connections are made.
maybeConnectEmulatorsUnset(f) ==
  IF f.emulatorsConfigured THEN f
  ELSE IF ~f.shouldUseEmulators THEN [f EXCEPT !.emulatorsConfigured = TRUE]
  ELSE IF ~f.window THEN f
  ELSE [f EXCEPT !.connects = [s \in Services |-> @[s] + 1]]

\* maybeConnectEmulators(clients)
maybeConnectEmulators(f) ==
  IF f.emulatorsConfigured THEN f
  ELSE IF ~f.shouldUseEmulators THEN [f EXCEPT !.emulatorsConfigured = TRUE]
  ELSE IF ~f.window THEN f
  ELSE [f EXCEPT
          !.connects = [s \in Services |-> @[s] + 1],
          !.emulatorsConfigured = TRUE]

\* A realm loads the module: a browser or the server, with the emulators
\* enabled or not, with or without an app initialized before.
FirebaseInit ==
  /\ habits = [h \in HabitIds |-> NoDoc]
  /\ entries = [h \in HabitIds |-> << >>]
  /\ now = DAY_MS \div 2
  /\ run = IdleRun
  /\ sameData = [h \in HabitIds |-> 0]
  /\ client = IdleClient
  /\ other = IdleRun
  /\ \E window \in BOOLEAN, shouldUseEmulators \in BOOLEAN,
        existingApps \in {0, 1} :
       firebase = [NoFirebase EXCEPT
                     !.window = window,
                     !.shouldUseEmulators = shouldUseEmulators,
                     !.existingApps = existingApps]

\* A component calls getFirebaseClients(); the call runs to its return
\* before anything else does.
getFirebaseClients ==
  /\ firebase.pc = "idle"
  /\ firebase.calls < MaxCalls
  /\ firebase' = [firebase EXCEPT !.pc = "ensureClients", !.calls = @ + 1]
  /\ UNCHANGED <<habits, entries, now, run, sameData, client, other>>

\* const clients = ensureClients();
EnsureClients ==
  /\ firebase.pc = "ensureClients"
  /\ firebase' = [ensureClients(firebase) EXCEPT !.pc = "setPersistence"]
  /\ UNCHANGED <<habits, entries, now, run, sameData, client, other>>

\* In a browser, setPersistence(...) is started and not awaited.
SetPersistence ==
  /\ firebase.pc = "setPersistence"
  /\ firebase' = [firebase EXCEPT
                    !.pc = "maybeConnectEmulators",
                    !.pending = IF firebase.window THEN @ + 1 ELSE @]
  /\ UNCHANGED <<habits, entries, now, run, sameData, client, other>>

\* maybeConnectEmulators(clients);
MaybeConnectEmulators ==
  /\ firebase.pc = "maybeConnectEmulators"
  /\ firebase' = [maybeConnectEmulators(firebase) EXCEPT !.pc = "return"]
  /\ UNCHANGED <<habits, entries, now, run, sameData, client, other>>

\* return clients;
ReturnClients ==
  /\ firebase.pc = "return"
  /\ firebase' = [firebase EXCEPT
                    !.pc = "idle",
                    !.returned = firebase.clients,
                    !.clients = Absent]
  /\ UNCHANGED <<habits, entries, now, run, sameData, client, other>>

\* A promise of setPersistence settles; a rejection is caught and ignored.
SettlePersistence ==
  /\ firebase.pc = "idle"
  /\ firebase.pending > 0
  /\ firebase' = [firebase EXCEPT !.pending = @ - 1]
  /\ UNCHANGED <<habits, entries, now, run, sameData, client, other>>

FirebaseNext ==
  \/ getFirebaseClients
  \/ EnsureClients
  \/ SetPersistence
  \/ MaybeConnectEmulators
  \/ ReturnClients
  \/ SettlePersistence

SpecFirebase == FirebaseInit /\ [][FirebaseNext]_vars

(* ------------------------------ the claims ---------------------------- *)

\* The value of field f of habit h, an optional.
Field(h, f) == habits[h].fields[f]

\* The run's write to the store happens in this step.
Writes == run.pc = "set" /\ run'.pc # "set"

\* C1: in every habit document that holds the derived fields,
\* currentStreak <= longestStreak, whatever longestStreak was stored before
\* the run (none is read as 0).
C1_CurrentAtMostLongest ==
  \A h \in HabitIds :
    Field(h, "currentStreak") # Absent =>
      /\ Field(h, "longestStreak") # Absent
      /\ Field(h, "currentStreak")[1].v <= Field(h, "longestStreak")[1].v

\* A run has written a current streak of 2 days over a stored longestStreak.
C1_Witness ==
  /\ run.pc = "respond"
  /\ run.docs # << >>
  /\ run.docs[1].longestStreak # Absent
  /\ Field(1, "currentStreak") = Some(Num(2))
  /\ Field(1, "longestStreak") = Some(Num(2))

\* C2: the stored longestStreak of a habit never decreases, and each write
\* of the run stores max(longestStreak stored before, candidate of the scan).
C2_LongestNeverDecreases ==
  [][/\ \A h \in HabitIds :
          habits[h].exists /\ habits'[h].exists =>
            NumberOr0(Field(h, "longestStreak"))
              <= NumberOr0(habits'[h].fields["longestStreak"])
     /\ Writes =>
          habits'[CurrentHabit].fields["longestStreak"] =
            Some(Num(Max(NumberOr0(Field(CurrentHabit, "longestStreak")),
                         run.locals.longestStreakCandidate)))]_vars

\* A run has written the habit and kept a longestStreak of 2 that the scan
\* of the entries the habit has now does not reach.
C2_Witness ==
  /\ run.pc = "respond"
  /\ sameData[1] >= 1
  /\ Field(1, "longestStreak") = Some(Num(2))
  /\ computeLongestStreak(
       BuildDateKeys(QueryEntries(entries[1], ScanLimit), << >>)) < 2

\* keys[i..j] are consecutive calendar days, newest first.
Consecutive(keys, i, j) == \A m \in (i + 1)..j : keys[m - 1] - keys[m] = 1

\* The length of the longest prefix of keys that is consecutive days.
TrailingRun(keys) ==
  CHOOSE k \in 1..Len(keys) :
    /\ Consecutive(keys, 1, k)
    /\ k < Len(keys) => ~Consecutive(keys, 1, k + 1)

\* The length of the longest stretch of consecutive days anywhere in keys.
LongestRun(keys) ==
  IF keys = << >> THEN 0
  ELSE CHOOSE n \in 1..Len(keys) :
         /\ \E i \in 1..Len(keys) : Consecutive(keys, i, i + n - 1)
                                     /\ i + n - 1 <= Len(keys)
         /\ \A i \in 1..Len(keys), j \in 1..Len(keys) :
              i <= j /\ Consecutive(keys, i, j) => j - i + 1 <= n

\* C3: computeCurrentStreak of distinct keys, newest first, is 0 when there
\* is no key or the newest key is more than a day before today, and else
\* the length of the longest prefix of consecutive days: counting stops at
\* the first gap and the newest key counts whether it is today or not.
C3_CurrentStreakIsTrailingRun ==
  run.pc = "done" =>
    LET keys == run.locals.dateKeys
    IN  run.locals.currentStreak =
          IF keys = << >> \/ toDateKey(now) - keys[1] > 1 THEN 0
          ELSE TrailingRun(keys)

\* The newest key is yesterday, the streak is 2 days, and after a gap the
\* keys hold two more consecutive days, which are not counted.
C3_Witness ==
  /\ run.pc = "done"
  /\ Len(run.locals.dateKeys) = 4
  /\ run.locals.dateKeys[1] = toDateKey(now) - 1
  /\ run.locals.currentStreak = 2
  /\ run.locals.dateKeys[2] - run.locals.dateKeys[3] > 1
  /\ run.locals.dateKeys[3] - run.locals.dateKeys[4] = 1

\* C4: computeLongestStreak of distinct keys, newest first, is the length
\* of the longest stretch of consecutive days anywhere in them, 0 for no
\* key; today, yesterday and 5, 6, 7 days ago give a current streak of 2
\* and a longest streak of 3.
C4_LongestStreakIsLongestRun ==
  run.pc = "done" =>
    LET keys == run.locals.dateKeys
        today == toDateKey(now)
    IN  /\ run.locals.longestStreakCandidate = LongestRun(keys)
        /\ keys = <<today, today - 1, today - 5, today - 6, today - 7>> =>
             /\ run.locals.currentStreak = 2
             /\ run.locals.longestStreakCandidate = 3

\* The keys are today, yesterday and 5, 6, 7 days ago.
C4_Witness ==
  /\ run.pc = "done"
  /\ toDateKey(now) >= 7
  /\ run.locals.dateKeys =
       <<toDateKey(now), toDateKey(now) - 1, toDateKey(now) - 5,
         toDateKey(now) - 6, toDateKey(now) - 7>>
  /\ run.locals.longestStreakCandidate = 3

\* The performedAt values of a sequence of entries.
Values(docs) == {docs[i] : i \in 1..Len(docs)}

\* The calendar days on which the entries of docs with a Timestamp fall.
DaysOf(docs) == {toDateKey(p[1].v) : p \in {q \in Values(docs) : IsTimestamp(q)}}

\* The instant of the newest Timestamp among docs, null when there is none.
NewestTimestamp(docs) ==
  LET instants == {p[1].v : p \in {q \in Values(docs) : IsTimestamp(q)}}
  IN  IF instants = {} THEN NullValue
      ELSE Ts(CHOOSE t \in instants : \A u \in instants : u <= t)

\* C5: the current streak and the longest-streak candidate an iteration
\* computes are those of the set of days on which the habit has an entry,
\* however many entries a day has and also when the habit has more entries
\* than the scan returns.  (Stated for habits whose entries all hold a
\* Timestamp that is not after the instant of the run.)
C5_StreaksOfDistinctDays ==
  (/\ run.pc = "set"
   /\ \A p \in Values(entries[CurrentHabit]) :
        IsTimestamp(p) /\ p[1].v <= ComputedAt) =>
    LET days == Descending(DaysOf(entries[CurrentHabit]))
    IN  /\ run.locals.currentStreak = computeCurrentStreak(days, ComputedAt)
        /\ run.locals.longestStreakCandidate = computeLongestStreak(days)

\* C6: for a habit without entries the iteration computes a current streak
\* of 0 and a candidate of 0, and its write stores currentStreak 0, no
\* lastEntryAt (null) and the longestStreak that was stored (0 for none).
C6_NoEntries ==
  [][(Writes /\ entries[CurrentHabit] = << >>) =>
       /\ run.locals.currentStreak = 0
       /\ run.locals.longestStreakCandidate = 0
       /\ habits'[CurrentHabit].fields["currentStreak"] = Some(Num(0))
       /\ habits'[CurrentHabit].fields["lastEntryAt"] = Some(NullValue)
       /\ habits'[CurrentHabit].fields["longestStreak"] =
            Some(Num(NumberOr0(Field(CurrentHabit, "longestStreak"))))]_vars

\* The run has written a habit that has lost all its entries: lastEntryAt
\* is null and the longestStreak of 2 is kept.
C6_Witness ==
  /\ run.pc = "respond"
  /\ sameData[1] >= 1
  /\ entries[1] = << >>
  /\ Field(1, "currentStreak") = Some(Num(0))
  /\ Field(1, "lastEntryAt") = Some(NullValue)
  /\ Field(1, "longestStreak") = Some(Num(2))

\* C7: the lastEntryAt an iteration writes is the instant of the newest
\* entry of its scan that holds a Timestamp, also when entries of the scan
\* hold a performedAt that is no Timestamp.
C7_LastEntryAtIsNewestTimestamp ==
  run.pc = "set" =>
    run.locals.data.lastEntryAt = NewestTimestamp(run.locals.entriesSnapshot)

\* C8: the entries of the scan whose performedAt is no Timestamp are
\* skipped: the streaks computed, and written, are those of the days of the
\* entries that hold one, wherever the others stand in the scan.
C8_MalformedEntriesSkipped ==
  [][Writes =>
       LET days == Descending(DaysOf(run.locals.entriesSnapshot))
           currentStreak == computeCurrentStreak(days, ComputedAt)
           longestStreak == Max(NumberOr0(Field(CurrentHabit, "longestStreak")),
                                computeLongestStreak(days))
       IN  /\ run.locals.dateKeys = days
           /\ habits'[CurrentHabit].fields["currentStreak"]
                = Some(Num(currentStreak))
           /\ habits'[CurrentHabit].fields["longestStreak"]
                = Some(Num(longestStreak))]_vars

\* The run has written a streak of 1 day from a scan of a string and a
\* Timestamp of today.
C8_Witness ==
  /\ run.pc = "respond"
  /\ sameData[1] >= 1
  /\ LET docs == QueryEntries(entries[1], ScanLimit)
     IN  /\ Some(StrValue) \in Values(docs)
         /\ DaysOf(docs) = {toDateKey(now)}
  /\ Field(1, "currentStreak") = Some(Num(1))

\* C9: a write of the run that follows another one to the same habit, with
\* the same entries and on the same calendar day, leaves currentStreak and
\* longestStreak as the first write stored them.
C9_SecondRunSameValues ==
  [][(/\ Writes
      /\ sameData[CurrentHabit] >= 1
      /\ toDateKey(ComputedAt) = toDateKey(now)) =>
       /\ habits'[CurrentHabit].fields["currentStreak"]
            = Field(CurrentHabit, "currentStreak")
       /\ habits'[CurrentHabit].fields["longestStreak"]
            = Field(CurrentHabit, "longestStreak")
       /\ NumberOr0(habits'[CurrentHabit].fields["longestStreak"])
            >= NumberOr0(Field(CurrentHabit, "longestStreak"))]_vars

\* Two runs in succession have written a streak of 2 days from the same
\* entries on the same day.
C9_Witness ==
  /\ run.pc = "respond"
  /\ sameData[1] = 2
  /\ Field(1, "currentStreak") = Some(Num(2))

\* The fields calculateStreaks is said to maintain, and those it writes.
DerivedFields == {"currentStreak", "longestStreak", "lastEntryAt"}

WrittenFields == DerivedFields \cup {"updatedAt"}

\* A step of the run changes no entry and no habit but the one it writes,
\* and of that one no field outside fields.
RunChangesOnly(fields) ==
  run' # run =>
    /\ entries' = entries
    /\ ~Writes => habits' = habits
    /\ Writes =>
         /\ \A g \in HabitIds \ {CurrentHabit} : habits'[g] = habits[g]
         /\ habits'[CurrentHabit].exists
         /\ \A f \in FieldNames \ fields :
              habits'[CurrentHabit].fields[f] = Field(CurrentHabit, f)

\* C10 as claimed: a run changes only currentStreak, longestStreak and
\* lastEntryAt of a habit, and no entry.
C10_OnlyDerivedFields == [][RunChangesOnly(DerivedFields)]_vars

\* C10 as amended: a run changes only currentStreak, longestStreak,
\* lastEntryAt and updatedAt of a habit, which it sets to the values its
\* iteration computed, and no entry.
C10_OnlyWrittenFields ==
  [][/\ RunChangesOnly(WrittenFields)
     /\ Writes =>
          \A f \in WrittenFields :
            habits'[CurrentHabit].fields[f] = Some(run.locals.data[f])]_vars

\* The run has written, on day 1, two habits created on day 0: the fields
\* of the form are there, updatedAt is the instant of the run.
C10_Witness ==
  /\ run.pc = "respond"
  /\ run.processed = 2
  /\ toDateKey(now) = 1
  /\ \A h \in HabitIds :
       /\ sameData[h] >= 1
       /\ Field(h, "title") = Some(StrValue)
       /\ Field(h, "ownerId") = Some(StrValue)
       /\ Field(h, "currentStreak") # Absent
       /\ Field(h, "updatedAt") = Some(Ts(now))
  /\ entries[1] # << >>

\* The step deletes the document of habit h.
Deletes(h) == habits[h].exists /\ ~habits'[h].exists

\* C11: after handleDeleteHabit has deleted a habit, no entry of that habit
\* remains in the store.
C11_DeleteRemovesEntries ==
  [][\A h \in HabitIds : Deletes(h) => entries'[h] = << >>]_vars

\* C12: the streak calculation never creates a habit: when a habit of the
\* run's habits snapshot has been deleted by the time the run writes to it,
\* the write leaves the habit's document nonexistent.
C12_RunNeverCreatesHabit ==
  [][(Writes /\ ~habits[CurrentHabit].exists)
       => ~habits'[CurrentHabit].exists]_vars

\* The write of the second request happens in this step.
WritesOther == other.pc = "set" /\ other'.pc # "set"

\* C13: when two calculateStreaks requests overlap on a habit and its
\* entries change between their reads, no write of either request lowers
\* the longestStreak persisted for the habit.
C13_OverlapNeverLowersLongest ==
  [][\A h \in HabitIds :
       ((Writes \/ WritesOther) /\ Field(h, "longestStreak") # Absent)
         => /\ Field(h, "longestStreak")' # Absent
            /\ Field(h, "longestStreak")'[1].v >= Field(h, "longestStreak")[1].v]_vars

\* C14: whenever computeCurrentStreak is greater than 0, the newest distinct
\* entry day is today or yesterday at the instant of the calculation; a
\* newest day after today starts no counted streak.
C14_StreakStartsTodayOrYesterday ==
  (run.pc = "done" /\ run.locals.currentStreak > 0) =>
    /\ run.locals.dateKeys # << >>
    /\ toDateKey(now) - run.locals.dateKeys[1] \in {0, 1}

\* The ids of the documents of a habits snapshot, in its order.
SnapshotIds(docs) == [i \in 1..Len(docs) |-> docs[i].id]

\* C15: every calculateStreaks request comes to its end; its k-th write,
\* and no other step of it, goes to the k-th habit of its habits snapshot
\* and is counted once in processed, the snapshot holds each habit once in
\* the order of the ids and does not change during the request, and the
\* response is processed = the number of habits of the snapshot (0 when
\* there is none).
C15_RunProcessesSnapshotOnce ==
  /\ (run.pc # "idle") ~> (run.pc = "idle")
  /\ [](/\ run.processed = run.index - 1
        /\ run.processed <= Len(run.docs)
        /\ run.pc \in {"entries", "set"} => run.index <= Len(run.docs)
        /\ run.pc = "respond" => run.processed = Len(run.docs)
        /\ \A i \in 1..Len(run.docs), j \in 1..Len(run.docs) :
             i < j => run.docs[i].id < run.docs[j].id)
  /\ [][/\ run.pc \notin {"idle", "respond"} => run'.docs = run.docs
        /\ run.pc = "idle" /\ run'.pc # "idle" =>
             /\ run'.processed = 0
             /\ {run'.docs[i].id : i \in 1..Len(run'.docs)} = ExistingHabits
             /\ (ExistingHabits = {} => run'.pc = "respond")
        /\ Writes =>
             /\ CurrentHabit = SnapshotIds(run.docs)[run.processed + 1]
             /\ run'.processed = run.processed + 1
             /\ \A h \in HabitIds \ {CurrentHabit} : habits'[h] = habits[h]
        /\ run' # run /\ ~Writes =>
             /\ habits' = habits
             /\ run.pc # "respond" => run'.processed = run.processed
        /\ run.pc = "respond" /\ run'.pc # "respond" =>
             /\ run'.pc = "idle"
             /\ run'.response = Some(Len(run.docs))]_vars

\* A request has answered processed = 2 for a snapshot of two habits, and
\* both habits hold the fields it writes.
C15_Witness ==
  /\ run.pc = "idle"
  /\ run.response = Some(2)
  /\ \A h \in HabitIds : Field(h, "currentStreak") # Absent

\* C16: once a handleLogEntry and a calculateStreaks request that read the
\* habit's entries before the new entry was added have both finished, the
\* habit's lastEntryAt is a Timestamp not older than the performedAt of the
\* habit's newest entry.
C16_LastEntryAtNotOlderThanNewest ==
  (run.pc = "idle" /\ client.pc = "idle") =>
    \A h \in HabitIds :
      (habits[h].exists /\ entries[h] # << >>) =>
        /\ IsTimestamp(Field(h, "lastEntryAt"))
        /\ Field(h, "lastEntryAt")[1].v >= entries[h][1][1].v

\* C17: over any sequence of getFirebaseClients calls one bundle is built,
\* by the first call, and every call returns it; each emulator connection
\* is made at most once, and only with the emulators enabled and in a
\* browser; once emulatorsConfigured is true it stays true and no later
\* call connects.
C17_OneBundleOneConnection ==
  /\ [](/\ firebase.created <= 1
        /\ firebase.firebaseClients =
             (IF firebase.created = 0 THEN Absent ELSE Some(1))
        /\ firebase.created = 0 =>
             firebase.calls = 0 \/ (firebase.calls = 1
                                     /\ firebase.pc = "ensureClients")
        /\ firebase.calls >= 1 /\ firebase.pc = "idle" =>
             /\ firebase.returned = Some(1)
             /\ firebase.returned = firebase.firebaseClients
        /\ \A s \in Services :
             /\ firebase.connects[s] <= 1
             /\ firebase.connects[s] = 1 =>
                  /\ firebase.shouldUseEmulators
                  /\ firebase.window
                  /\ firebase.emulatorsConfigured)
  /\ [][/\ firebase.emulatorsConfigured =>
             /\ firebase'.emulatorsConfigured
             /\ firebase'.connects = firebase.connects
        /\ firebase'.connects # firebase.connects =>
             /\ firebase.pc = "maybeConnectEmulators"
             /\ \A s \in Services : firebase'.connects[s] = 1
        /\ firebase.firebaseClients # Absent =>
             firebase'.firebaseClients = firebase.firebaseClients]_vars

\* In a browser with the emulators enabled, a later call than the first has
\* returned the first call's bundle and each connection was made once.
C17_Witness ==
  /\ firebase.pc = "idle"
  /\ firebase.calls = MaxCalls
  /\ firebase.returned = Some(1)
  /\ firebase.window /\ firebase.shouldUseEmulators
  /\ firebase.emulatorsConfigured
  /\ \A s \in Services : firebase.connects[s] = 1

====
